---- MODULE Spec2Model ----
(***************************************************************************)
(* The conversational turn of the HCP interaction logger                  *)
(* (backend/main.py): the chat endpoint log_interaction_chat, the         *)
(* LangGraph agent graph it invokes (llm node, tools node and the two     *)
(* conditional edges), the five tools and the reply classification.       *)
(*                                                                         *)
(* Text is modelled as a sequence of one-character strings, so that       *)
(* Python's `in`, str.lower() and str.strip() are computed, not assumed.  *)
(***************************************************************************)
EXTENDS Naturals, Sequences, FiniteSets

VARIABLES
    pc,         \* where the request is: idle, llm, tools, end, replied, rejected, failed
    message,    \* ChatSession.message of the request
    history,    \* ChatSession.history of the request: <<[sender, text]>>
    messages,   \* AgentState.messages: the value of the graph's "messages" channel
    prev,       \* the value of the channel before the node that ran last
    lastNode,   \* the node that ran last: none, llm, tools
    executed,   \* the ids of the tool calls the last step executed, in order
    step,       \* supersteps the graph has run
    nextId,     \* the next tool-call id the LLM provider hands out
    rounds,     \* how many more responses of the LLM will carry tool calls
    menu,       \* which responses the LLM draws from: wide or narrow
    answered,   \* the LLM has returned a message without tool calls
    status,     \* HTTP status of the response (0: none yet)
    error,      \* what raised, for a 4xx/5xx response: none, empty_message, llm, recursion, tool
    reply,      \* ChatResponse.reply
    kind,       \* ChatResponse.type
    peer,       \* the other chat request in flight, suspended at an await
    records,    \* the rows of the table interaction_logs, in the order of their ids
    origins,    \* for each row, the request that added it: [via, data]
    dbStatus,   \* HTTP status of the last form, confirmation or listing request (0: none yet)
    listing,    \* the body of the last response of GET /api/logs
    attempt     \* the last form or confirmation request, if any: its body, the
                \* rows it found and whether its transaction went through

\* The variables of one chat request.
turnVars == <<pc, message, history, messages, prev, lastNode, executed, step,
              rounds, menu, answered, status, error, reply, kind>>

\* The variables of the store and of the requests that write to it.
storeVars == <<records, origins, dbStatus, listing, attempt>>

vars == <<pc, message, history, messages, prev, lastNode, executed, step,
          nextId, rounds, menu, answered, status, error, reply, kind,
          peer, records, origins, dbStatus, listing, attempt>>

---------------------------------------------------------------------------
(* Bounds of the model.                                                    *)

\* Tool calls in one assistant message.
MaxBatch == 2
\* Tool-call rounds of an LLM that draws from the wide or the twin menu.
MaxCycles == 1
\* Tool-call rounds of an LLM that draws from the narrow menu; large enough
\* for the graph to run out of supersteps.
MaxRounds == 13
\* Rows the table may hold.
MaxRecords == 2

(* Program constants.                                                      *)

\* text[:100] in summarize_interaction_tool.
SummaryLimit == 100
\* app_graph.ainvoke is called without a config: LangGraph's default
\* recursion_limit, the number of supersteps one invocation may run.
RecursionLimit == 25
\* HCPInteractionForm.hcpName: max_length=100
NameMaxLength == 100
\* HCPInteractionForm.outcomes, followUpActions: max_length=500
TextMaxLength == 500

---------------------------------------------------------------------------
(* Text.                                                                   *)

\* The lower-case letter of each upper-case letter.
LowerOf ==
    [A |-> "a", B |-> "b", C |-> "c", D |-> "d", E |-> "e", F |-> "f", G |-> "g",
     H |-> "h", I |-> "i", J |-> "j", K |-> "k", L |-> "l", M |-> "m", N |-> "n",
     O |-> "o", P |-> "p", Q |-> "q", R |-> "r", S |-> "s", T |-> "t", U |-> "u",
     V |-> "v", W |-> "w", X |-> "x", Y |-> "y", Z |-> "z"]

CharLower(c) == IF c \in DOMAIN LowerOf THEN LowerOf[c] ELSE c

\* str.lower()
StrLower(s) == [i \in 1..Len(s) |-> CharLower(s[i])]

\* sub in s
Contains(s, sub) ==
    \E i \in 0..(Len(s) - Len(sub)) : \A j \in 1..Len(sub) : s[i + j] = sub[j]

IsSpace(c) == c \in {" ", "\n", "\t", "\r"}

\* str.strip()
Strip(s) ==
    LET keep == {i \in 1..Len(s) : ~IsSpace(s[i])}
    IN  IF keep = {} THEN <<>>
        ELSE SubSeq(s, CHOOSE i \in keep : \A j \in keep : i <= j,
                       CHOOSE i \in keep : \A j \in keep : j <= i)

\* s[:n]
Take(s, n) == SubSeq(s, 1, IF Len(s) < n THEN Len(s) ELSE n)

RECURSIVE Join(_, _)
\* sep.join(list)
Join(sep, list) ==
    IF list = <<>> THEN <<>>
    ELSE IF Len(list) = 1 THEN list[1]
    ELSE list[1] \o sep \o Join(sep, Tail(list))

IsPrefix(s, t) == Len(s) <= Len(t) /\ SubSeq(t, 1, Len(s)) = s

Last(s) == s[Len(s)]

(* Fixed texts of the program.                                             *)

MarkerHCP == <<"*","*","H","C","P",":","*","*">>
MarkerDate == <<"*","*","D","a","t","e",":","*","*">>
MarkerTopics == <<"*","*","T","o","p","i","c","s",":","*","*">>
LabelTime == <<"*","*","T","i","m","e",":","*","*">>
LabelType == <<"*","*","T","y","p","e",":","*","*">>
LabelAttendees == <<"*","*","A","t","t","e","n","d","e","e","s",":","*","*">>
LabelMaterials == <<"*","*","M","a","t","e","r","i","a","l","s"," ","S","h","a","r","e","d",":","*","*">>
LabelSamples == <<"*","*","S","a","m","p","l","e","s"," ","D","i","s","t","r","i","b","u","t","e","d",":","*","*">>
LabelSentiment == <<"*","*","S","e","n","t","i","m","e","n","t",":","*","*">>
LabelOutcomes == <<"*","*","O","u","t","c","o","m","e","s",":","*","*">>
LabelFollowUp == <<"*","*","F","o","l","l","o","w","-","u","p",":","*","*">>
NA == <<"N","/","A">>
Space == <<" ">>
Newline == <<"\n">>
CommaSpace == <<","," ">>
WordQuestion == <<"q","u","e","s","t","i","o","n">>
WordClarify == <<"c","l","a","r","i","f","y">>
Meeting == <<"M","e","e","t","i","n","g">>

\* The names of the five tools, and a name that is none of them.
NameLog == <<"l","o","g","_","i","n","t","e","r","a","c","t","i","o","n","_","t","o","o","l">>
NameAsk == <<"a","s","k","_","c","l","a","r","i","f","y","i","n","g","_","q","u","e","s","t","i","o","n","_","t","o","o","l">>
NameSummarize == <<"s","u","m","m","a","r","i","z","e","_","i","n","t","e","r","a","c","t","i","o","n","_","t","o","o","l">>
NameEdit == <<"e","d","i","t","_","i","n","t","e","r","a","c","t","i","o","n","_","t","o","o","l">>
NameRetrieve == <<"r","e","t","r","i","e","v","e","_","h","c","p","_","i","n","f","o","_","t","o","o","l">>
NameDelete == <<"d","e","l","e","t","e","_","t","o","o","l">>
NameAskQuestion == <<"a","s","k","_","q","u","e","s","t","i","o","n">>

UnknownToolPrefix == <<"U","n","k","n","o","w","n"," ","t","o","o","l",":"," ">>
ErrorPrefix == <<"E","r","r","o","r"," ","e","x","e","c","u","t","i","n","g"," ","t","o","o","l"," ">>
ColonSpace == <<":"," ">>
SummaryPrefix == <<"S","u","m","m","a","r","y"," ","o","f"," ","p","r","o","v","i","d","e","d"," ","t","e","x","t",":"," ","'">>
SummarySuffix == <<".",".",".","'"," ","(","m","o","c","k"," ","s","u","m","m","a","r","y",")">>
EditPrefix == <<"M","o","c","k",":"," ","I","n","t","e","r","a","c","t","i","o","n"," ">>
EditField == <<" ","f","i","e","l","d"," ","'">>
EditUpdated == <<"'"," ","u","p","d","a","t","e","d"," ","t","o"," ","'">>
EditSuffix == <<"'",".">>
RetrievePrefix == <<"M","o","c","k",":"," ","R","e","t","r","i","e","v","e","d"," ","i","n","f","o"," ","f","o","r"," ">>
RetrieveSuffix == <<":"," ","S","p","e","c","i","a","l","i","t","y",":"," ","C","a","r","d","i","o","l","o","g","y",","," ","L","o","c","a","t","i","o","n",":"," ","C","i","t","y"," ","H","o","s","p","i","t","a","l",".">>

\* The system prompt (its first sentence; the rest is instructions to the LLM).
SystemPrompt == <<"Y","o","u"," ","a","r","e"," ","a"," ","h","e","l","p","f","u","l"," ","A","I"," ","a","s","s","i","s","t","a","n","t"," ","f","o","r"," ","l","o","g","g","i","n","g"," ","i","n","t","e","r","a","c","t","i","o","n","s"," ","w","i","t","h"," ","H","e","a","l","t","h","c","a","r","e"," ","P","r","o","f","e","s","s","i","o","n","a","l","s"," ","(","H","C","P","s",")",".">>

(* Texts the inputs are drawn from.                                        *)

\* ''
TxtEmpty == <<>>
\* '  '
TxtBlank == <<" "," ">>
\* 'Hi'
TxtHi == <<"H","i">>
\* ' Hi '
TxtHiPadded == <<" ","H","i"," ">>
\* 'Hello!'
TxtHello == <<"H","e","l","l","o","!">>
\* 'Noted.'
TxtOldReply == <<"N","o","t","e","d",".">>
\* 'Please clarify the date.'
TxtAskDirect == <<"P","l","e","a","s","e"," ","c","l","a","r","i","f","y"," ","t","h","e"," ","d","a","t","e",".">>
\* '**HCP:** A\\n**Date:** B\\n**Topics:** C'
TxtDirectDraft == <<"*","*","H","C","P",":","*","*"," ","A","\n","*","*","D","a","t","e",":","*","*"," ","B","\n","*","*","T","o","p","i","c","s",":","*","*"," ","C">>
\* '**HCP:** A\\n**Date:** B'
TxtTwoMarkers == <<"*","*","H","C","P",":","*","*"," ","A","\n","*","*","D","a","t","e",":","*","*"," ","B">>
\* '**hcp:** a\\n**date:** b\\n**topics:** c'
TxtLowerMarkers == <<"*","*","h","c","p",":","*","*"," ","a","\n","*","*","d","a","t","e",":","*","*"," ","b","\n","*","*","t","o","p","i","c","s",":","*","*"," ","c">>
\* 'Dr. Lee'
TxtDrLee == <<"D","r","."," ","L","e","e">>
\* '01-06-2024'
TxtDate == <<"0","1","-","0","6","-","2","0","2","4">>
\* 'Drug X efficacy'
TxtTopic == <<"D","r","u","g"," ","X"," ","e","f","f","i","c","a","c","y">>
\* 'Clarify dosing'
TxtTopicClarify == <<"C","l","a","r","i","f","y"," ","d","o","s","i","n","g">>
\* '10:30'
TxtTime == <<"1","0",":","3","0">>
\* 'Happy'
TxtHappy == <<"H","a","p","p","y">>
\* ' Positive '
TxtPositivePadded == <<" ","P","o","s","i","t","i","v","e"," ">>
\* 'Ann'
TxtAnn == <<"A","n","n">>
\* 'Bob'
TxtBob == <<"B","o","b">>
\* 'Could you clarify the meeting date?'
TxtQClarify == <<"C","o","u","l","d"," ","y","o","u"," ","c","l","a","r","i","f","y"," ","t","h","e"," ","m","e","e","t","i","n","g"," ","d","a","t","e","?">>
\* 'What date did the meeting occur?'
TxtQPlain == <<"W","h","a","t"," ","d","a","t","e"," ","d","i","d"," ","t","h","e"," ","m","e","e","t","i","n","g"," ","o","c","c","u","r","?">>
\* 'Any QUESTION?'
TxtQUpper == <<"A","n","y"," ","Q","U","E","S","T","I","O","N","?">>
\* 'Met Dr. Lee'
TxtNotes == <<"M","e","t"," ","D","r","."," ","L","e","e">>
\* '7'
TxtSeven == <<"7">>
\* 'outcomes'
TxtOutcomes == <<"o","u","t","c","o","m","e","s">>
\* 'ok'
TxtOk == <<"o","k">>
\* '1 validation error: Field required'
CauseFieldRequired == <<"1"," ","v","a","l","i","d","a","t","i","o","n"," ","e","r","r","o","r",":"," ","F","i","e","l","d"," ","r","e","q","u","i","r","e","d">>
\* '1 validation error: question Field required'
CauseNamesQuestion == <<"1"," ","v","a","l","i","d","a","t","i","o","n"," ","e","r","r","o","r",":"," ","q","u","e","s","t","i","o","n"," ","F","i","e","l","d"," ","r","e","q","u","i","r","e","d">>

---------------------------------------------------------------------------
(* The tools.  The arguments of a call are a record holding the           *)
(* arguments the LLM supplied: an argument it left out is not a field.    *)

Has(args, k) == k \in DOMAIN args

\* A slip in the template: a value that is missing is rendered as nothing.
OrNA_blank(args, k) == IF Has(args, k) /\ args[k] # <<>> THEN args[k] ELSE <<>>

\* f"{x if x else 'N/A'}" for an optional text argument
OrNA(args, k) == IF Has(args, k) /\ args[k] # <<>> THEN args[k] ELSE NA

\* f"{', '.join(xs) if xs else 'N/A'}" for an optional list argument
JoinedOrNA(args, k) ==
    IF Has(args, k) /\ args[k] # <<>> THEN Join(CommaSpace, args[k]) ELSE NA

Positive == <<"P","o","s","i","t","i","v","e">>
Neutral == <<"N","e","u","t","r","a","l">>
Negative == <<"N","e","g","a","t","i","v","e">>

\* ['Positive', 'Neutral', 'Negative']
Sentiments == {Positive, Neutral, Negative}

\* A slip in sentiment_display: a sentiment that is none of the three reads N/A.
SentimentDisplay_known_only(args) ==
    IF Has(args, "hcpSentiment") /\ Strip(args.hcpSentiment) \in Sentiments
    THEN Strip(args.hcpSentiment)
    ELSE NA

\* sentiment_display
SentimentDisplay(args) ==
    IF Has(args, "hcpSentiment")
       /\ args.hcpSentiment # <<>>
       /\ Strip(args.hcpSentiment) # <<>>
       /\ Strip(args.hcpSentiment) # NA
    THEN Strip(args.hcpSentiment)
    ELSE NA

\* interactionType: str = "Meeting"
TypeDisplay(args) ==
    IF ~Has(args, "interactionType") THEN Meeting
    ELSE IF args.interactionType # <<>> THEN args.interactionType ELSE NA

DraftLine(label, value) == label \o Space \o value

log_interaction_tool(args) ==
    Join(Newline,
         << DraftLine(MarkerHCP, OrNA(args, "hcpName")),
            DraftLine(MarkerDate, OrNA(args, "interactionDate")),
            DraftLine(LabelTime, OrNA(args, "interactionTime")),
            DraftLine(LabelType, TypeDisplay(args)),
            DraftLine(LabelAttendees, JoinedOrNA(args, "attendees")),
            DraftLine(MarkerTopics, OrNA(args, "topicsDiscussed")),
            DraftLine(LabelMaterials, JoinedOrNA(args, "materialsShared")),
            DraftLine(LabelSamples, JoinedOrNA(args, "samplesDistributed")),
            DraftLine(LabelSentiment, SentimentDisplay(args)),
            DraftLine(LabelOutcomes, OrNA(args, "outcomes")),
            DraftLine(LabelFollowUp, OrNA(args, "followUpActions")) >>)

ask_clarifying_question_tool(args) == args.question

summarize_interaction_tool(args) ==
    SummaryPrefix \o Take(args.text, SummaryLimit) \o SummarySuffix

edit_interaction_tool(args) ==
    EditPrefix \o args.interaction_id \o EditField \o args.field_to_edit
        \o EditUpdated \o args.new_value \o EditSuffix

retrieve_hcp_info_tool(args) == RetrievePrefix \o args.hcp_name \o RetrieveSuffix

\* tools
ToolNames == {NameLog, NameAsk, NameSummarize, NameEdit, NameRetrieve}

\* The parameters without a default in each tool's signature.
Required(name) ==
    IF name = NameLog THEN {"hcpName", "interactionDate", "topicsDiscussed"}
    ELSE IF name = NameAsk THEN {"question"}
    ELSE IF name = NameSummarize THEN {"text"}
    ELSE IF name = NameEdit THEN {"interaction_id", "field_to_edit", "new_value"}
    ELSE IF name = NameRetrieve THEN {"hcp_name"}
    ELSE {}

\* <tool>.ainvoke(tool_args) raises: the arguments do not fit the signature.
Raises(name, args) == name \in ToolNames /\ ~(Required(name) \subseteq DOMAIN args)

\* <tool>.ainvoke(tool_args) when it does not raise
Invoke(name, args) ==
    IF name = NameLog THEN log_interaction_tool(args)
    ELSE IF name = NameAsk THEN ask_clarifying_question_tool(args)
    ELSE IF name = NameSummarize THEN summarize_interaction_tool(args)
    ELSE IF name = NameEdit THEN edit_interaction_tool(args)
    ELSE retrieve_hcp_info_tool(args)

\* The texts str(e) of a raised exception is drawn from.
Causes == {CauseFieldRequired, CauseNamesQuestion}

---------------------------------------------------------------------------
(* Messages.                                                               *)

SystemMessage(c) == [type |-> "system", content |-> c, tool_calls |-> <<>>, tool_call_id |-> 0]
HumanMessage(c)  == [type |-> "human", content |-> c, tool_calls |-> <<>>, tool_call_id |-> 0]
AIMessage(c, calls) == [type |-> "ai", content |-> c, tool_calls |-> calls, tool_call_id |-> 0]
ToolMessage(c, id) == [type |-> "tool", content |-> c, tool_calls |-> <<>>, tool_call_id |-> id]

\* A slip in the except clause: the cause is left out of the message.
ToolOutputContent_no_cause(tool_call, cause) ==
    IF Raises(tool_call.name, tool_call.args)
    THEN ErrorPrefix \o tool_call.name
    ELSE IF tool_call.name \in ToolNames
    THEN Invoke(tool_call.name, tool_call.args)
    ELSE UnknownToolPrefix \o tool_call.name

\* A slip in call_tool_node: a name outside the registry is reported like a
\* tool that raised.
ToolOutputContent_unknown_as_error(tool_call, cause) ==
    IF Raises(tool_call.name, tool_call.args) \/ tool_call.name \notin ToolNames
    THEN ErrorPrefix \o tool_call.name \o ColonSpace \o cause
    ELSE Invoke(tool_call.name, tool_call.args)

\* tool_output_content of one iteration of call_tool_node's loop; cause is
\* str(e) should the tool raise.
ToolOutputContent(tool_call, cause) ==
    IF Raises(tool_call.name, tool_call.args)
    THEN ErrorPrefix \o tool_call.name \o ColonSpace \o cause
    ELSE IF tool_call.name \in ToolNames
    THEN Invoke(tool_call.name, tool_call.args)
    ELSE UnknownToolPrefix \o tool_call.name

\* A slip in call_tool_node: every tool message carries the id of the first call.
ToolOutputs_first_id(tool_calls, causes) ==
    [i \in 1..Len(tool_calls) |->
        ToolMessage(ToolOutputContent(tool_calls[i], causes[i]), tool_calls[1].id)]

\* tool_outputs of call_tool_node
ToolOutputs(tool_calls, causes) ==
    [i \in 1..Len(tool_calls) |->
        ToolMessage(ToolOutputContent(tool_calls[i], causes[i]), tool_calls[i].id)]

\* The value call_tool_node returns for the "messages" channel.
call_tool_node(state, causes) ==
    IF Last(state).type = "ai" /\ Last(state).tool_calls # <<>>
    THEN state \o ToolOutputs(Last(state).tool_calls, causes)
    ELSE state

\* The value call_llm_node returns for the "messages" channel.  AgentState
\* declares messages without a reducer, so the graph replaces the channel's
\* value by the returned one.
call_llm_node(state, response) == <<response>>

\* A slip in the edges of the llm node: "end" leads back to the llm node.
should_continue_loops(state) ==
    IF Last(state).type = "ai" /\ Last(state).tool_calls # <<>>
    THEN "tools"
    ELSE "llm"

\* A slip in should_continue: the tools node runs whatever the LLM returned.
should_continue_always_tools(state) == "tools"

\* A slip in should_continue: the graph ends whatever the LLM returned.
should_continue_never_tools(state) == "end"

\* should_continue and the edges of the llm node: the node that runs next.
should_continue(state) ==
    IF Last(state).type = "ai" /\ Last(state).tool_calls # <<>>
    THEN "tools"
    ELSE "end"

\* "question" in content.lower() or "clarify" in content.lower()
MentionsQuestion(content) ==
    LET lower == StrLower(content)
    IN  Contains(lower, WordQuestion) \/ Contains(lower, WordClarify)

\* A slip in should_continue_after_tool: any tool message of the state is searched.
should_continue_after_tool_any(state) ==
    IF \E i \in 1..Len(state) :
          state[i].type = "tool" /\ MentionsQuestion(state[i].content)
    THEN "llm"
    ELSE "end"

\* A slip in should_continue_after_tool: the loop back to the llm node is lost.
should_continue_after_tool_ends(state) == "end"

\* A slip in should_continue_after_tool: the test for a draft comes first.
should_continue_after_tool_draft_first(state) ==
    IF Last(state).type = "tool" /\ Contains(Last(state).content, MarkerHCP)
                                 /\ Contains(Last(state).content, MarkerDate)
    THEN "end"
    ELSE IF Last(state).type = "tool" /\ MentionsQuestion(Last(state).content)
    THEN "llm"
    ELSE "end"

\* should_continue_after_tool and the edges of the tools node.
should_continue_after_tool(state) ==
    IF Last(state).type = "tool" /\ MentionsQuestion(Last(state).content)
    THEN "llm"
    ELSE "end"

\* A slip in the draft heuristic: the two markers should_continue_after_tool looks for.
IsDraft_two_markers(reply_text) ==
    Contains(reply_text, MarkerHCP) /\ Contains(reply_text, MarkerDate)

\* The draft heuristic of log_interaction_chat.
IsDraft(reply_text) ==
    /\ Contains(reply_text, MarkerHCP)
    /\ Contains(reply_text, MarkerDate)
    /\ Contains(reply_text, MarkerTopics)

\* The replies of log_interaction_chat's fallback branches.
FallbackPrefix == <<"A","I"," ","d","e","c","i","d","e","d"," ","t","o"," ","c","a","l","l"," ","t","o","o","l",":"," ">>
FallbackArgs == <<" ","w","i","t","h"," ","a","r","g","s",":"," ">>
FallbackSuffix == <<"."," ","A","w","a","i","t","i","n","g"," ","t","o","o","l"," ","e","x","e","c","u","t","i","o","n"," ","o","u","t","p","u","t",".">>
SorryText == <<"S","o","r","r","y",","," ","I"," ","c","o","u","l","d","n","'","t"," ","p","r","o","c","e","s","s"," ","t","h","a","t"," ","r","e","q","u","e","s","t",".">>

\* repr(tool_args) as the f-string renders it, abbreviated to the names of
\* the arguments supplied (the values are not rendered).
ArgNames == <<"hcpName", "interactionDate", "topicsDiscussed", "interactionTime",
              "interactionType", "attendees", "materialsShared", "samplesDistributed",
              "hcpSentiment", "outcomes", "followUpActions", "question", "text",
              "interaction_id", "field_to_edit", "new_value", "hcp_name">>

RECURSIVE ReprArgs(_, _)
ReprArgs(args, i) ==
    IF i > Len(ArgNames) THEN <<>>
    ELSE (IF Has(args, ArgNames[i]) THEN <<ArgNames[i]>> ELSE <<>>) \o ReprArgs(args, i + 1)

---------------------------------------------------------------------------
(* The inputs: the requests and the responses of the LLM.                  *)

\* ChatSession.message
UserTexts == {TxtEmpty, TxtBlank, TxtHi, TxtHiPadded}

\* ChatSession.history
Histories ==
    { <<>>,
      << [sender |-> "user", text |-> TxtHi], [sender |-> "ai", text |-> TxtOldReply] >>,
      << [sender |-> "bot", text |-> TxtOldReply], [sender |-> "user", text |-> TxtHi] >> }

Call(name, args) == [name |-> name, args |-> args]

LogArgs == [hcpName |-> TxtDrLee, interactionDate |-> TxtDate, topicsDiscussed |-> TxtTopic]

\* The tool calls an assistant message of several calls is made of.
CoreCalls ==
    { Call(NameLog, LogArgs),
      Call(NameLog, [interactionDate |-> TxtDate, topicsDiscussed |-> TxtTopic]),
      Call(NameAsk, [question |-> TxtQClarify]),
      Call(NameDelete, [text |-> TxtNotes]) }

\* The tool calls an assistant message of one call is drawn from.
SingleCalls ==
    CoreCalls \cup
    { Call(NameLog, [hcpName |-> TxtDrLee, interactionDate |-> TxtDate,
                     topicsDiscussed |-> TxtTopicClarify, interactionTime |-> TxtTime,
                     attendees |-> <<TxtAnn, TxtBob>>, hcpSentiment |-> TxtPositivePadded]),
      Call(NameLog, [hcpName |-> <<>>, interactionDate |-> TxtDate,
                     topicsDiscussed |-> TxtTopic, interactionType |-> <<>>,
                     hcpSentiment |-> NA]),
      Call(NameLog, [hcpName |-> TxtDrLee, interactionDate |-> TxtDate,
                     topicsDiscussed |-> TxtTopic, hcpSentiment |-> TxtHappy]),
      Call(NameAsk, [question |-> TxtQPlain]),
      Call(NameAsk, [question |-> TxtQUpper]),
      Call(NameAsk, [text |-> TxtQPlain]),
      Call(NameAskQuestion, [question |-> TxtQPlain]),
      Call(NameSummarize, [text |-> TxtNotes]),
      Call(NameEdit, [interaction_id |-> TxtSeven, field_to_edit |-> TxtOutcomes,
                      new_value |-> TxtOk]),
      Call(NameRetrieve, [hcp_name |-> TxtDrLee]) }

\* The tool-call batches of an assistant message, without ids.
Batches(m) ==
    IF m = "narrow" THEN { <<Call(NameAsk, [question |-> TxtQClarify])>> }
    ELSE IF m = "twin"
    THEN { <<Call(NameAsk, [question |-> TxtQClarify])>>,
           <<Call(NameAsk, [question |-> TxtQPlain])>>,
           <<Call(NameLog, LogArgs)>> }
    ELSE { <<c>> : c \in SingleCalls }
         \cup UNION { [1..n -> CoreCalls] : n \in 2..MaxBatch }

\* The contents of an assistant message without tool calls.
DirectTexts(m) ==
    IF m = "narrow" THEN {TxtHello}
    ELSE IF m = "twin" THEN {TxtHello, TxtQPlain, log_interaction_tool(LogArgs)}
    ELSE {TxtHello, TxtAskDirect, TxtDirectDraft, TxtTwoMarkers, TxtLowerMarkers}

\* The LLMs a request is explored with: one that draws from the narrow menu
\* and one that draws from the twin menu (a few responses, some of which
\* read the same as an assistant and as a tool message) for every request,
\* one that draws from the wide menu for one request.
Menus(m, h) ==
    IF m = TxtHi /\ h = <<>> THEN {"narrow", "twin", "wide"} ELSE {"narrow", "twin"}

\* The provider numbers the tool calls of a response: ids are never reused.
WithIds(batch, first) ==
    [i \in 1..Len(batch) |->
        [name |-> batch[i].name, args |-> batch[i].args, id |-> first + i - 1]]

\* The responses llm_with_tools.ainvoke may return: with tool calls while the
\* LLM has rounds left, and without once it has none.
LLMResponses ==
    IF rounds = 0
    THEN { AIMessage(c, <<>>) : c \in DirectTexts(menu) }
    ELSE { AIMessage(<<>>, WithIds(b, nextId)) : b \in Batches(menu) }

---------------------------------------------------------------------------
(* The chat endpoint and the graph.                                        *)

\* A slip in the replay of the history: the roles are swapped.
HistoryMessages_swapped(h) ==
    LET one(e) == IF e.sender = "user" THEN <<AIMessage(e.text, <<>>)>>
                  ELSE IF e.sender = "ai" THEN <<HumanMessage(e.text)>>
                  ELSE <<>>
        RECURSIVE all(_)
        all(s) == IF s = <<>> THEN <<>> ELSE one(Head(s)) \o all(Tail(s))
    IN  all(h)

\* The message a history entry becomes; entries of another sender are skipped.
HistoryMessages(h) ==
    LET one(e) == IF e.sender = "user" THEN <<HumanMessage(e.text)>>
                  ELSE IF e.sender = "ai" THEN <<AIMessage(e.text, <<>>)>>
                  ELSE <<>>
        RECURSIVE all(_)
        all(s) == IF s = <<>> THEN <<>> ELSE one(Head(s)) \o all(Tail(s))
    IN  all(h)

\* langchain_messages
InitialMessages(h, m) ==
    <<SystemMessage(SystemPrompt)>> \o HistoryMessages(h) \o <<HumanMessage(m)>>

\* A slip in the validation: the message is not stripped.
IsEmptyMessage_unstripped(m) == m = <<>>

\* if not user_message_text.strip()
IsEmptyMessage(m) == Strip(m) = <<>>

\* A chat request that has not arrived yet.
IdleTurn ==
    [pc |-> "idle", message |-> <<>>, history |-> <<>>, messages |-> <<>>,
     prev |-> <<>>, lastNode |-> "none", executed |-> <<>>, step |-> 0,
     rounds |-> 0, menu |-> "narrow", answered |-> FALSE, status |-> 0,
     error |-> "none", reply |-> <<>>, kind |-> "none"]

\* No chat request is in flight.
NoTurn ==
    /\ peer = IdleTurn
    /\ pc = "idle"
    /\ message = <<>>
    /\ history = <<>>
    /\ messages = <<>>
    /\ prev = <<>>
    /\ lastNode = "none"
    /\ executed = <<>>
    /\ step = 0
    /\ nextId = 1
    /\ rounds = 0
    /\ menu = "narrow"
    /\ answered = FALSE
    /\ status = 0
    /\ error = "none"
    /\ reply = <<>>
    /\ kind = "none"

Init ==
    /\ NoTurn
    /\ records = <<>>
    /\ origins = <<>>
    /\ dbStatus = 0
    /\ listing = <<>>
    /\ attempt = <<>>

\* log_interaction_chat up to the invocation of the graph.
Request ==
    /\ UNCHANGED <<peer, storeVars>>
    /\ pc = "idle"
    /\ \E m \in UserTexts, h \in Histories :
        /\ message' = m
        /\ history' = h
        /\ IF IsEmptyMessage(m)
           THEN /\ pc' = "rejected"
                /\ status' = 400
                /\ error' = "empty_message"
                /\ UNCHANGED <<messages, rounds, menu>>
           ELSE /\ pc' = "llm"
                /\ messages' = InitialMessages(h, m)
                /\ \E mn \in Menus(m, h) :
                     \E r \in 0..(IF mn = "narrow" THEN MaxRounds ELSE MaxCycles) :
                        /\ menu' = mn
                        /\ rounds' = r
                /\ UNCHANGED <<status, error>>
    /\ UNCHANGED <<prev, lastNode, executed, step, nextId, answered, reply, kind>>

\* One superstep of the graph: the llm node and its conditional edge.
CallLLM ==
    /\ UNCHANGED <<peer, storeVars>>
    /\ pc = "llm"
    /\ step < RecursionLimit
    /\ \E response \in LLMResponses :
        /\ messages' = call_llm_node(messages, response)
        /\ nextId' = nextId + Len(response.tool_calls)
        /\ answered' = (answered \/ response.tool_calls = <<>>)
    /\ prev' = messages
    /\ lastNode' = "llm"
    /\ executed' = <<>>
    /\ step' = step + 1
    /\ rounds' = IF rounds = 0 THEN 0 ELSE rounds - 1
    /\ pc' = should_continue(messages')
    /\ UNCHANGED <<message, history, menu, status, error, reply, kind>>

\* A slip in the handler: the failure of the LLM is noted and the turn goes
\* on to the classification of the last message.
LLMFails_swallowed ==
    /\ UNCHANGED <<peer, storeVars>>
    /\ pc = "llm"
    /\ step < RecursionLimit
    /\ pc' = "end"
    /\ error' = "llm"
    /\ UNCHANGED <<message, history, messages, prev, lastNode, executed, step,
                   nextId, rounds, menu, answered, status, reply, kind>>

\* llm_with_tools.ainvoke raises: the exception leaves the graph and
\* log_interaction_chat answers 500.
LLMFails ==
    /\ UNCHANGED <<peer, storeVars>>
    /\ pc = "llm"
    /\ step < RecursionLimit
    /\ pc' = "failed"
    /\ status' = 500
    /\ error' = "llm"
    /\ UNCHANGED <<message, history, messages, prev, lastNode, executed, step,
                   nextId, rounds, menu, answered, reply, kind>>

\* One superstep of the graph: the tools node and its conditional edge.
CallTools ==
    /\ UNCHANGED <<peer, storeVars>>
    /\ pc = "tools"
    /\ step < RecursionLimit
    /\ \E causes \in [1..Len(Last(messages).tool_calls) -> Causes] :
        /\ \A i \in DOMAIN causes :
              Raises(Last(messages).tool_calls[i].name, Last(messages).tool_calls[i].args)
                 \/ causes[i] = CauseFieldRequired
        /\ messages' = call_tool_node(messages, causes)
    /\ prev' = messages
    /\ lastNode' = "tools"
    /\ executed' = [i \in 1..Len(Last(messages).tool_calls) |-> Last(messages).tool_calls[i].id]
    /\ step' = step + 1
    /\ pc' = should_continue_after_tool(messages')
    /\ UNCHANGED <<message, history, nextId, rounds, menu, answered, status, error, reply, kind>>

\* A node is due and the supersteps are used up: the graph raises
\* GraphRecursionError and log_interaction_chat answers 500.
OutOfSteps ==
    /\ UNCHANGED <<peer, storeVars>>
    /\ pc \in {"llm", "tools"}
    /\ step >= RecursionLimit
    /\ pc' = "failed"
    /\ status' = 500
    /\ error' = "recursion"
    /\ UNCHANGED <<message, history, messages, prev, lastNode, executed, step,
                   nextId, rounds, menu, answered, reply, kind>>

\* A variant of the classification that reports clarifying questions as their own kind.
ResponseType_question(reply_text) ==
    IF IsDraft(reply_text) THEN "draft"
    ELSE IF MentionsQuestion(reply_text) THEN "question"
    ELSE "text"

\* response_type of log_interaction_chat for a final message that is an
\* assistant message without tool calls or a tool message.
ResponseType(reply_text) == IF IsDraft(reply_text) THEN "draft" ELSE "text"

\* A slip in the handler: the reply is taken from the first message of the
\* final state.
Respond_first_message ==
    /\ UNCHANGED <<peer, storeVars>>
    /\ pc = "end"
    /\ pc' = "replied"
    /\ status' = 200
    /\ error' = "none"
    /\ executed' = <<>>
    /\ reply' = Head(messages).content
    /\ kind' = ResponseType(Head(messages).content)
    /\ UNCHANGED <<message, history, messages, prev, lastNode, step, nextId, rounds, menu,
                   answered>>

\* A variant of the handler that looks for the markers of a draft in an
\* assistant message only: a tool message is of kind text.
Respond_by_role ==
    /\ UNCHANGED <<peer, storeVars>>
    /\ pc = "end"
    /\ pc' = "replied"
    /\ status' = 200
    /\ error' = "none"
    /\ executed' = <<>>
    /\ reply' = Last(messages).content
    /\ kind' = IF Last(messages).type = "ai"
               THEN ResponseType(Last(messages).content)
               ELSE "text"
    /\ UNCHANGED <<message, history, messages, prev, lastNode, step, nextId, rounds, menu,
                   answered>>

\* A variant of the handler that stores the draft it replies with.
Respond_saves_draft ==
    /\ UNCHANGED <<peer, dbStatus, listing, attempt>>
    /\ pc = "end"
    /\ pc' = "replied"
    /\ status' = 200
    /\ error' = "none"
    /\ executed' = <<>>
    /\ reply' = Last(messages).content
    /\ kind' = ResponseType(Last(messages).content)
    /\ IF kind' = "draft"
       THEN /\ records' = Append(records, [id |-> Len(records) + 1, draft |-> reply'])
            /\ origins' = Append(origins, [via |-> "chat", data |-> reply'])
       ELSE UNCHANGED <<records, origins>>
    /\ UNCHANGED <<message, history, messages, prev, lastNode, step, nextId, rounds, menu,
                   answered>>

\* A variant of the handler that invokes whichever registered tool an
\* assistant message still asks for.
Respond_invokes_any ==
    /\ UNCHANGED <<peer, storeVars>>
    /\ pc = "end"
    /\ LET agent_response_message == Last(messages)
           tool_call == agent_response_message.tool_calls[1]
       IN  IF /\ agent_response_message.type = "ai"
              /\ agent_response_message.tool_calls # <<>>
              /\ tool_call.name \in ToolNames
              /\ ~Raises(tool_call.name, tool_call.args)
           THEN /\ reply' = Invoke(tool_call.name, tool_call.args)
                /\ kind' = IF tool_call.name = NameLog THEN "draft" ELSE "text"
                /\ executed' = <<tool_call.id>>
           ELSE /\ reply' = agent_response_message.content
                /\ kind' = ResponseType(agent_response_message.content)
                /\ executed' = <<>>
    /\ pc' = "replied"
    /\ status' = 200
    /\ error' = "none"
    /\ UNCHANGED <<message, history, messages, prev, lastNode, step, nextId, rounds, menu,
                   answered>>

\* log_interaction_chat after the graph has ended.
Respond ==
    /\ UNCHANGED <<peer, storeVars>>
    /\ pc = "end"
    /\ LET agent_response_message == Last(messages)
           tool_call == agent_response_message.tool_calls[1]
       IN  IF agent_response_message.type = "ai" /\ agent_response_message.tool_calls # <<>>
           THEN IF tool_call.name = NameLog
                THEN IF Raises(tool_call.name, tool_call.args)
                     THEN /\ pc' = "failed"
                          /\ status' = 500
                          /\ error' = "tool"
                          /\ UNCHANGED <<reply, kind, executed>>
                     ELSE /\ pc' = "replied"
                          /\ status' = 200
                          /\ error' = "none"
                          /\ reply' = log_interaction_tool(tool_call.args)
                          /\ kind' = "draft"
                          /\ executed' = <<tool_call.id>>
                ELSE /\ pc' = "replied"
                     /\ status' = 200
                     /\ error' = "none"
                     /\ reply' = FallbackPrefix \o tool_call.name \o FallbackArgs
                                   \o ReprArgs(tool_call.args, 1) \o FallbackSuffix
                     /\ kind' = "text"
                     /\ executed' = <<>>
           ELSE /\ pc' = "replied"
                /\ status' = 200
                /\ error' = "none"
                /\ executed' = <<>>
                /\ IF agent_response_message.type \in {"ai", "tool"}
                   THEN /\ reply' = agent_response_message.content
                        /\ kind' = ResponseType(agent_response_message.content)
                   ELSE IF agent_response_message.type = "human"
                   THEN /\ reply' = agent_response_message.content
                        /\ kind' = "text"
                   ELSE /\ reply' = SorryText
                        /\ kind' = "text"
    /\ UNCHANGED <<message, history, messages, prev, lastNode, step, nextId, rounds, menu,
                   answered>>

Next == Request \/ CallLLM \/ LLMFails \/ CallTools \/ OutOfSteps \/ Respond

(* The classification of the final message, applied to a final state whose *)
(* last message is an assistant message that still carries tool calls: the *)
(* case the handler keeps a branch for, should the edges of the graph      *)
(* change.                                                                 *)

\* The graph was invoked for a request and has ended on the first response
\* of the LLM, which asks for tools.
PendingInit ==
    /\ peer = IdleTurn
    /\ records = <<>>
    /\ origins = <<>>
    /\ dbStatus = 0
    /\ listing = <<>>
    /\ attempt = <<>>
    /\ pc = "end"
    /\ \E m \in UserTexts, h \in Histories, b \in Batches("wide") :
          /\ ~IsEmptyMessage(m)
          /\ message = m
          /\ history = h
          /\ prev = InitialMessages(h, m)
          /\ messages = call_llm_node(prev, AIMessage(<<>>, WithIds(b, 1)))
          /\ nextId = 1 + Len(b)
    /\ lastNode = "llm"
    /\ executed = <<>>
    /\ step = 1
    /\ rounds = 0
    /\ menu = "wide"
    /\ answered = FALSE
    /\ status = 0
    /\ error = "none"
    /\ reply = <<>>
    /\ kind = "none"

PendingSpec == PendingInit /\ [][Respond]_vars

(* Two chat requests in flight.  The handlers are coroutines of one event  *)
(* loop: one runs at a time and the loop may switch to the other wherever  *)
(* the running one awaits.  The running request is held by the variables   *)
(* of the turn, the suspended one by peer.                                 *)

\* The running request, as a record.
Current ==
    [pc |-> pc, message |-> message, history |-> history, messages |-> messages,
     prev |-> prev, lastNode |-> lastNode, executed |-> executed, step |-> step,
     rounds |-> rounds, menu |-> menu, answered |-> answered, status |-> status,
     error |-> error, reply |-> reply, kind |-> kind]

\* A variant in which the messages are one list of the module, shared by
\* the requests: the request that resumes goes on with the list as it is.
Switch_shared_messages ==
    /\ peer' = Current
    /\ pc' = peer.pc
    /\ message' = peer.message
    /\ history' = peer.history
    /\ prev' = peer.prev
    /\ lastNode' = peer.lastNode
    /\ executed' = peer.executed
    /\ step' = peer.step
    /\ rounds' = peer.rounds
    /\ menu' = peer.menu
    /\ answered' = peer.answered
    /\ status' = peer.status
    /\ error' = peer.error
    /\ reply' = peer.reply
    /\ kind' = peer.kind
    /\ UNCHANGED <<messages, nextId, storeVars>>

\* The event loop suspends the running request and resumes the other one:
\* each has its own langchain_messages and its own graph state.
Switch ==
    /\ peer' = Current
    /\ pc' = peer.pc
    /\ message' = peer.message
    /\ history' = peer.history
    /\ messages' = peer.messages
    /\ prev' = peer.prev
    /\ lastNode' = peer.lastNode
    /\ executed' = peer.executed
    /\ step' = peer.step
    /\ rounds' = peer.rounds
    /\ menu' = peer.menu
    /\ answered' = peer.answered
    /\ status' = peer.status
    /\ error' = peer.error
    /\ reply' = peer.reply
    /\ kind' = peer.kind
    /\ UNCHANGED <<nextId, storeVars>>

\* The request bodies the concurrent requests are drawn from.
TwinBodies ==
    { <<TxtHi, <<>> >>,
      <<TxtHiPadded, << [sender |-> "user", text |-> TxtHi],
                        [sender |-> "ai", text |-> TxtOldReply] >> >> }

\* A chat request arrives whose LLM draws from the twin menu.
TwinRequest ==
    /\ Request
    /\ menu' = "twin"
    /\ <<message', history'>> \in TwinBodies

ConcurrentNext == TwinRequest \/ CallLLM \/ LLMFails \/ CallTools \/ Respond \/ Switch

ConcurrentSpec == Init /\ [][ConcurrentNext]_vars

Spec == Init /\ [][Next]_vars

---------------------------------------------------------------------------
(* The store: the table interaction_logs, the form endpoint and the        *)
(* confirmation endpoint.  The column timestamp (the time of the insert)  *)
(* is left out: no handler modelled here reads it.                         *)

\* An Optional value: None, or a value that is there.
None == <<>>
Some(v) == <<v>>

\* null in the JSON body of a request, where a text is expected: a value
\* that no text equals.
Null == <<"null">>

DigitChars == <<"0","1","2","3","4","5","6","7","8","9">>

IsDigit(c) == \E i \in 1..Len(DigitChars) : DigitChars[i] = c

DigitValue(c) == (CHOOSE i \in 1..Len(DigitChars) : DigitChars[i] = c) - 1

AllDigits(s) == \A i \in 1..Len(s) : IsDigit(s[i])

RECURSIVE ParseNat(_)
\* int(s) for a text of digits
ParseNat(s) ==
    IF s = <<>> THEN 0
    ELSE 10 * ParseNat(SubSeq(s, 1, Len(s) - 1)) + DigitValue(s[Len(s)])

RECURSIVE Split(_, _)
\* s.split(sep) for a separator of one character
Split(s, sep) ==
    IF \A i \in 1..Len(s) : s[i] # sep THEN <<s>>
    ELSE LET i == CHOOSE i \in 1..Len(s) : s[i] = sep /\ \A j \in 1..(i - 1) : s[j] # sep
         IN  <<SubSeq(s, 1, i - 1)>> \o Split(SubSeq(s, i + 1, Len(s)), sep)

IsLeap(y) == (y % 4 = 0 /\ y % 100 # 0) \/ y % 400 = 0

DaysInMonth(y, m) ==
    IF m = 2 THEN (IF IsLeap(y) THEN 29 ELSE 28)
    ELSE IF m \in {4, 6, 9, 11} THEN 30
    ELSE 31

\* datetime.datetime.strptime(s, "%d-%m-%Y").date(); None stands for the
\* ValueError.  %d and %m take one or two digits, %Y takes four.
ParseDate(s) ==
    LET parts == Split(s, "-")
    IN  IF Len(parts) # 3 THEN None
        ELSE LET d == parts[1]
                 m == parts[2]
                 y == parts[3]
             IN  IF /\ Len(d) \in {1, 2} /\ AllDigits(d) /\ ParseNat(d) \in 1..31
                    /\ Len(m) \in {1, 2} /\ AllDigits(m) /\ ParseNat(m) \in 1..12
                    /\ Len(y) = 4 /\ AllDigits(y) /\ ParseNat(y) >= 1
                    /\ ParseNat(d) <= DaysInMonth(ParseNat(y), ParseNat(m))
                 THEN Some([year |-> ParseNat(y), month |-> ParseNat(m), day |-> ParseNat(d)])
                 ELSE None

\* datetime.datetime.strptime(s, "%H:%M").time(); None stands for the
\* ValueError.  %H and %M take one or two digits.
ParseTime(s) ==
    LET parts == Split(s, ":")
    IN  IF Len(parts) # 2 THEN None
        ELSE LET h == parts[1]
                 m == parts[2]
             IN  IF /\ Len(h) \in {1, 2} /\ AllDigits(h) /\ ParseNat(h) \in 0..23
                    /\ Len(m) \in {1, 2} /\ AllDigits(m) /\ ParseNat(m) \in 0..59
                 THEN Some([hour |-> ParseNat(h), minute |-> ParseNat(m), second |-> 0])
                 ELSE None

\* json.dumps(xs) for a list of texts without characters to escape
JsonDumps(xs) ==
    <<"[">> \o Join(CommaSpace, [i \in 1..Len(xs) |-> <<"\"">> \o xs[i] \o <<"\"">>])
            \o <<"]">>

TypeCall == <<"C","a","l","l">>
TypeEmail == <<"E","m","a","i","l">>
TypeConference == <<"C","o","n","f","e","r","e","n","c","e">>
TypeOther == <<"O","t","h","e","r">>

\* Literal['Meeting', 'Call', 'Email', 'Conference', 'Other', '']
InteractionTypes == {Meeting, TypeCall, TypeEmail, TypeConference, TypeOther, <<>>}

\* HCPInteractionForm(**data) does not raise ValidationError.
ValidForm(data) ==
    /\ Len(data.hcpName) \in 1..NameMaxLength
    /\ data.interactionDate # None
    /\ data.interactionType \in InteractionTypes
    /\ Len(data.topicsDiscussed) >= 1
    /\ data.hcpSentiment = None \/ data.hcpSentiment[1] \in Sentiments \cup {<<>>}
    /\ Len(data.outcomes) <= TextMaxLength
    /\ Len(data.followUpActions) <= TextMaxLength

\* InteractionLogDB(...) for validated data, with the id the table gives it.
InteractionLogDB(parsed_data, id) ==
    [id |-> id,
     hcpName |-> parsed_data.hcpName,
     interactionDate |-> parsed_data.interactionDate[1],
     interactionTime |-> parsed_data.interactionTime,
     interactionType |-> parsed_data.interactionType,
     attendees |-> JsonDumps(parsed_data.attendees),
     topicsDiscussed |-> parsed_data.topicsDiscussed,
     materialsShared |-> JsonDumps(parsed_data.materialsShared),
     samplesDistributed |-> JsonDumps(parsed_data.samplesDistributed),
     hcpSentiment |-> parsed_data.hcpSentiment,
     outcomes |-> parsed_data.outcomes,
     followUpActions |-> parsed_data.followUpActions]

\* draft_data.get(k, default)
Get(draft_data, k, default) == IF Has(draft_data, k) THEN draft_data[k] ELSE default

\* hcp_sentiment of confirm_chat_interaction_log
NormalizedSentiment(draft_data) ==
    LET hcp_sentiment == Strip(Get(draft_data, "hcpSentiment", <<>>))
    IN  IF hcp_sentiment = NA \/ hcp_sentiment = <<>> THEN None ELSE Some(hcp_sentiment)

\* parsed_data_for_pydantic of confirm_chat_interaction_log
ParsedData(draft_data, hcp_sentiment, interaction_date_obj, interaction_time_obj) ==
    [hcpName |-> Get(draft_data, "hcpName", <<>>),
     interactionDate |-> interaction_date_obj,
     interactionTime |-> interaction_time_obj,
     interactionType |-> Get(draft_data, "interactionType", Meeting),
     attendees |-> Get(draft_data, "attendees", <<>>),
     topicsDiscussed |-> Get(draft_data, "topicsDiscussed", <<>>),
     materialsShared |-> Get(draft_data, "materialsShared", <<>>),
     samplesDistributed |-> Get(draft_data, "samplesDistributed", <<>>),
     hcpSentiment |-> hcp_sentiment,
     outcomes |-> Get(draft_data, "outcomes", <<>>),
     followUpActions |-> Get(draft_data, "followUpActions", <<>>)]

\* '2024-06-01'
TxtDateIso == <<"2","0","2","4","-","0","6","-","0","1">>
\* '31-02-2024'
TxtDateNoSuchDay == <<"3","1","-","0","2","-","2","0","2","4">>
\* ' 1-6-2024 '
TxtDateShort == <<" ","1","-","6","-","2","0","2","4"," ">>
\* '25:00'
TxtTimeNoSuchHour == <<"2","5",":","0","0">>
\* 'Agreed on a trial'
TxtAgreed == <<"A","g","r","e","e","d"," ","o","n"," ","a"," ","t","r","i","a","l">>

\* The draft the frontend sends for the draft of LogArgs.
DraftLee == [hcpName |-> TxtDrLee, interactionDate |-> TxtDate, topicsDiscussed |-> TxtTopic]

\* The bodies of the confirmation requests.
Drafts ==
    { DraftLee,
      [hcpName |-> TxtDrLee, interactionDate |-> TxtDateShort, topicsDiscussed |-> TxtTopic,
       interactionTime |-> TxtTime, interactionType |-> TypeCall,
       attendees |-> <<TxtAnn, TxtBob>>, hcpSentiment |-> TxtPositivePadded,
       outcomes |-> TxtAgreed],
      [hcpName |-> TxtDrLee, interactionDate |-> TxtDate, topicsDiscussed |-> TxtTopic,
       hcpSentiment |-> TxtHappy],
      [hcpName |-> TxtDrLee, interactionDate |-> TxtDateIso, topicsDiscussed |-> TxtTopic],
      [hcpName |-> TxtDrLee, interactionDate |-> TxtDateNoSuchDay, topicsDiscussed |-> TxtTopic],
      [hcpName |-> TxtDrLee, interactionDate |-> TxtDate, topicsDiscussed |-> TxtTopic,
       interactionTime |-> TxtTimeNoSuchHour],
      [hcpName |-> <<>>, interactionDate |-> TxtDate, topicsDiscussed |-> TxtTopic,
       hcpSentiment |-> NA],
      [hcpName |-> TxtDrLee, topicsDiscussed |-> TxtTopic],
      [hcpName |-> TxtDrLee, interactionDate |-> TxtDate, topicsDiscussed |-> TxtTopic,
       hcpSentiment |-> Null] }

\* The bodies of the form requests, as FastAPI hands them to the handler:
\* validated HCPInteractionForm objects.
Forms ==
    { [hcpName |-> TxtDrLee,
       interactionDate |-> Some([year |-> 2024, month |-> 6, day |-> 1]),
       interactionTime |-> None,
       interactionType |-> Meeting,
       attendees |-> <<TxtAnn>>,
       topicsDiscussed |-> TxtTopic,
       materialsShared |-> <<>>,
       samplesDistributed |-> <<>>,
       hcpSentiment |-> Some(<<>>),
       outcomes |-> <<>>,
       followUpActions |-> <<>>] }

\* confirm_chat_interaction_log; commits tells whether the transaction of
\* the insert goes through.  A null hcpSentiment has no strip(): the
\* AttributeError is raised outside every try and the response is a 500.
confirm_chat_interaction_log ==
    /\ UNCHANGED <<turnVars, nextId, peer, listing>>
    /\ Len(records) < MaxRecords
    /\ \E draft_data \in Drafts, commits \in BOOLEAN :
        /\ attempt' = Some([via |-> "confirm", data |-> draft_data,
                            commits |-> commits, before |-> records])
        /\ LET hcp_sentiment == NormalizedSentiment(draft_data)
               date_str == Get(draft_data, "interactionDate", <<>>)
               interaction_date_obj == IF date_str = <<>> THEN None ELSE ParseDate(Strip(date_str))
               time_str == Get(draft_data, "interactionTime", <<>>)
               interaction_time_obj == IF time_str = <<>> THEN None ELSE ParseTime(Strip(time_str))
               parsed_data == ParsedData(draft_data, hcp_sentiment, interaction_date_obj,
                                         interaction_time_obj)
           IN  IF Get(draft_data, "hcpSentiment", <<>>) = Null
               THEN /\ dbStatus' = 500
                    /\ UNCHANGED <<records, origins>>
               ELSE IF hcp_sentiment # None /\ hcp_sentiment[1] \notin Sentiments
               THEN /\ dbStatus' = 400
                    /\ UNCHANGED <<records, origins>>
               ELSE IF date_str # <<>> /\ interaction_date_obj = None
               THEN /\ dbStatus' = 400
                    /\ UNCHANGED <<records, origins>>
               ELSE IF time_str # <<>> /\ interaction_time_obj = None
               THEN /\ dbStatus' = 400
                    /\ UNCHANGED <<records, origins>>
               ELSE IF ~ValidForm(parsed_data)
               THEN /\ dbStatus' = 400
                    /\ UNCHANGED <<records, origins>>
               ELSE IF ~commits
               THEN /\ dbStatus' = 500
                    /\ UNCHANGED <<records, origins>>
               ELSE /\ dbStatus' = 201
                    /\ records' = Append(records, InteractionLogDB(parsed_data, Len(records) + 1))
                    /\ origins' = Append(origins, [via |-> "confirm", data |-> draft_data])

\* log_interaction_form; commits tells whether the transaction of the
\* insert goes through.
log_interaction_form ==
    /\ UNCHANGED <<turnVars, nextId, peer, listing>>
    /\ Len(records) < MaxRecords
    /\ \E interaction_data \in Forms, commits \in BOOLEAN :
        /\ attempt' = Some([via |-> "form", data |-> interaction_data,
                            commits |-> commits, before |-> records])
        /\ IF interaction_data.hcpName = <<>> /\ interaction_data.topicsDiscussed = <<>>
           THEN /\ dbStatus' = 400
                /\ UNCHANGED <<records, origins>>
           ELSE IF ~commits
           THEN /\ dbStatus' = 500
                /\ UNCHANGED <<records, origins>>
           ELSE /\ dbStatus' = 201
                /\ records' = Append(records, InteractionLogDB(interaction_data, Len(records) + 1))
                /\ origins' = Append(origins, [via |-> "form", data |-> interaction_data])

\* '%02d' % n
Pad2(n) == <<DigitChars[(n \div 10) + 1], DigitChars[(n % 10) + 1]>>

\* '%04d' % n
Pad4(n) == Pad2(n \div 100) \o Pad2(n % 100)

\* d.strftime("%Y-%m-%d")
FormatDate_iso(d) == Pad4(d.year) \o <<"-">> \o Pad2(d.month) \o <<"-">> \o Pad2(d.day)

\* d.strftime("%d-%m-%Y") for a date d whose year has four digits
FormatDate(d) == Pad2(d.day) \o <<"-">> \o Pad2(d.month) \o <<"-">> \o Pad4(d.year)

\* t.strftime("%H:%M"): the seconds of t are not rendered
FormatTime(t) == Pad2(t.hour) \o <<":">> \o Pad2(t.minute)

RECURSIVE SplitOn(_, _)
\* s.split(sep) for a separator of one or more characters
SplitOn(s, sep) ==
    IF ~Contains(s, sep) THEN <<s>>
    ELSE LET at(i) == SubSeq(s, i, i + Len(sep) - 1) = sep
             i == CHOOSE i \in 1..(Len(s) - Len(sep) + 1) :
                      at(i) /\ \A j \in 1..(i - 1) : ~at(j)
         IN  <<SubSeq(s, 1, i - 1)>> \o SplitOn(SubSeq(s, i + Len(sep), Len(s)), sep)

\* json.loads(s) for the text json.dumps gives for a list of texts
JsonLoads(s) ==
    IF s = <<"[", "]">> THEN <<>>
    ELSE SplitOn(SubSeq(s, 3, Len(s) - 2), <<"\"", ",", " ", "\"">>)

\* HCPLogResponse(...) as get_all_logs builds it for one row
HCPLogResponse(log) ==
    [id |-> log.id,
     hcpName |-> log.hcpName,
     interactionDate |-> FormatDate(log.interactionDate),
     interactionTime |-> IF log.interactionTime = None THEN None
                         ELSE Some(FormatTime(log.interactionTime[1])),
     interactionType |-> log.interactionType,
     attendees |-> JsonLoads(log.attendees),
     topicsDiscussed |-> log.topicsDiscussed,
     materialsShared |-> JsonLoads(log.materialsShared),
     samplesDistributed |-> JsonLoads(log.samplesDistributed),
     hcpSentiment |-> log.hcpSentiment,
     outcomes |-> log.outcomes,
     followUpActions |-> log.followUpActions]

\* get_all_logs
get_all_logs ==
    /\ UNCHANGED <<turnVars, nextId, peer, records, origins, attempt>>
    /\ dbStatus' = 200
    /\ listing' = [i \in 1..Len(records) |-> HCPLogResponse(records[i])]

\* Years of the dates the table is read with: the ends of the range of a
\* DATE column, leap and non-leap years, centuries of both kinds.
SampleYears == {1000, 1900, 2000, 2023, 2024, 9999}

\* datetime.date values
Dates ==
    {d \in [year : SampleYears, month : 1..12, day : 1..31] :
        d.day <= DaysInMonth(d.year, d.month)}

\* Seconds of the times the table is read with.
SampleSeconds == {0, 45}

\* datetime.time values
Times == [hour : 0..23, minute : 0..59, second : SampleSeconds]

\* A validated form with the date d and the time t.
FormAt(d, t) ==
    [hcpName |-> TxtDrLee,
     interactionDate |-> Some(d),
     interactionTime |-> t,
     interactionType |-> Meeting,
     attendees |-> <<TxtAnn, TxtBob>>,
     topicsDiscussed |-> TxtTopic,
     materialsShared |-> <<>>,
     samplesDistributed |-> <<>>,
     hcpSentiment |-> None,
     outcomes |-> <<>>,
     followUpActions |-> <<>>]

\* The dates and times of the row the listing is checked with: every date
\* with the time left out or at half past ten, and the first of June 2024
\* with every time.
StoredAt ==
    (Dates \X {None, Some([hour |-> 10, minute |-> 30, second |-> 0])})
    \cup ({[year |-> 2024, month |-> 6, day |-> 1]} \X {Some(u) : u \in Times})

\* The table holds one row, stored through the form endpoint.
ListingInit ==
    /\ NoTurn
    /\ \E at \in StoredAt :
          /\ records = <<InteractionLogDB(FormAt(at[1], at[2]), 1)>>
          /\ origins = <<[via |-> "form", data |-> FormAt(at[1], at[2])]>>
          /\ attempt = Some([via |-> "form", data |-> FormAt(at[1], at[2]),
                             commits |-> TRUE, before |-> <<>>])
    /\ dbStatus = 201
    /\ listing = <<>>

\* The listing of a table that holds one row.
ListingSpec == ListingInit /\ [][get_all_logs]_vars

\* One chat request and the requests that write to the store.
StoreNext ==
    \/ TwinRequest \/ CallLLM \/ LLMFails \/ CallTools \/ Respond
    \/ log_interaction_form \/ confirm_chat_interaction_log

StoreSpec == Init /\ [][StoreNext]_vars


\* The event loop runs a request to its response: a step that can be taken is taken.
FairSpec == Spec /\ WF_vars(CallLLM \/ CallTools \/ OutOfSteps \/ Respond)

---------------------------------------------------------------------------
(* The properties.                                                         *)

\* The tool calls whose results the tools node appended, when it ran last.
JustCalled == Last(prev).tool_calls

\* The content holds the three markers of a draft.
HasDraftMarkers(c) ==
    Contains(c, MarkerHCP) /\ Contains(c, MarkerDate) /\ Contains(c, MarkerTopics)

\* The text is empty or made of whitespace only.
OnlyWhitespace(m) == \A i \in 1..Len(m) : IsSpace(m[i])

\* The graph has ended and the reply has been produced.
Replied == pc = "replied"

\* C1: during a turn the message sequence is append-only: after the llm node
\* and after the tools node the previous sequence is a prefix of the new one.
C1_AppendOnly ==
    lastNode \in {"llm", "tools"} => IsPrefix(prev, messages)

\* C2 as stated: a turn whose LLM does not fail and, after finitely many
\* responses with tool calls, returns one without (as every LLM of the model
\* does: rounds is finite) reaches END: the turn is over only with its
\* reply, unless a call of the LLM raised.
C2_ReachesEnd ==
    pc = "failed" => error = "llm"

\* C2, amended: the turn terminates within RecursionLimit supersteps.  It is
\* at END as soon as the LLM has returned a response without tool calls; the
\* graph gives up only with every superstep used and no such response
\* returned so far.
C2_Terminates ==
    /\ [](error = "recursion" => (step = RecursionLimit /\ ~answered))
    /\ [](step <= RecursionLimit)
    /\ [](answered => pc \in {"end", "replied"})
    /\ [](pc = "llm" => <>(pc = "end" \/ error \in {"llm", "recursion"}))

\* The LLM answers without tool calls in the last superstep the graph may run.
C2_Witness ==
    pc = "end" /\ lastNode = "llm" /\ step = RecursionLimit /\ answered

C4_RouteOnResponse ==
    /\ lastNode = "llm" =>
          /\ Last(messages).type = "ai"
          /\ (Last(messages).tool_calls = <<>>
                => pc \in {"end", "replied"} /\ executed = <<>>)
          /\ (Last(messages).tool_calls # <<>>
                => pc = "tools" \/ (pc = "failed" /\ error = "recursion"))
    /\ executed # <<>> =>
          /\ lastNode = "tools"
          /\ Last(prev).type = "ai"
          /\ executed = [i \in 1..Len(JustCalled) |-> JustCalled[i].id]

\* The first response carries no tool calls and is the reply.
C4_Witness ==
    Replied /\ lastNode = "llm" /\ step = 1 /\ executed = <<>> /\ reply = TxtHello

\* The tool calls of the state's assistant messages: <<message, call>> indices.
CallPositions ==
    UNION { { <<k, c>> : c \in 1..Len(messages[k].tool_calls) } : k \in 1..Len(messages) }

\* C5: the tools node appends one tool message per requested call, in the
\* order of the calls and with the call's id, whether the call succeeded,
\* raised or named an unknown tool; every tool message answers exactly one
\* call of an earlier assistant message and no id is answered twice.
C5_OneToolMessagePerCall ==
    /\ lastNode = "tools" =>
          /\ Len(JustCalled) >= 1
          /\ Len(messages) = Len(prev) + Len(JustCalled)
          /\ \A i \in 1..Len(JustCalled) :
                /\ messages[Len(prev) + i].type = "tool"
                /\ messages[Len(prev) + i].tool_call_id = JustCalled[i].id
    /\ \A j \in 1..Len(messages) :
          messages[j].type = "tool" =>
              /\ Cardinality({ p \in CallPositions :
                                 /\ p[1] < j
                                 /\ messages[p[1]].tool_calls[p[2]].id
                                      = messages[j].tool_call_id }) = 1
              /\ \A i \in 1..Len(messages) :
                    (i # j /\ messages[i].type = "tool")
                        => messages[i].tool_call_id # messages[j].tool_call_id

\* A batch of a call that raises and a call of an unknown tool.
C5_Witness ==
    /\ lastNode = "tools"
    /\ Len(JustCalled) = 2
    /\ Raises(JustCalled[1].name, JustCalled[1].args)
    /\ JustCalled[2].name \notin ToolNames
    /\ Len(messages) = 3

\* C6: a request whose message is empty or whitespace only is answered 400
\* before anything is built: no message sequence, no LLM call, no tool, no
\* reply with a kind.
C6_EmptyMessageRejected ==
    /\ (pc # "idle" /\ OnlyWhitespace(message)) =>
          /\ pc = "rejected"
          /\ status = 400
          /\ messages = <<>>
          /\ step = 0
          /\ lastNode = "none"
          /\ executed = <<>>
          /\ reply = <<>>
          /\ kind = "none"
    /\ pc = "rejected" => OnlyWhitespace(message)

\* A message of blanks is rejected.
C6_Witness ==
    pc = "rejected" /\ message = TxtBlank /\ status = 400

\* C7: the kind of the reply is draft exactly when the content of the final
\* message holds the three markers, be it an assistant or a tool message.
C7_DraftIffMarkers ==
    Replied =>
        /\ \/ Last(messages).type = "tool"
           \/ Last(messages).type = "ai" /\ Last(messages).tool_calls = <<>>
        /\ (kind = "draft" <=> HasDraftMarkers(Last(messages).content))

\* The draft of the draft-formatting tool is the reply.
C7_Witness ==
    Replied /\ Last(messages).type = "tool" /\ kind = "draft"
      /\ reply = log_interaction_tool(LogArgs)

\* C8 as stated: a reply that is no draft and mentions "question" or
\* "clarify" is of kind question, and any other that is no draft of kind text.
C8_QuestionKind ==
    (Replied /\ ~HasDraftMarkers(Last(messages).content)) =>
        kind = IF MentionsQuestion(Last(messages).content) THEN "question" ELSE "text"

\* C8, amended: a reply that is no draft is of kind text, also when it
\* mentions "question" or "clarify"; the kind is never question.
C8_TextUnlessDraft ==
    Replied =>
        /\ kind \in {"text", "draft"}
        /\ (~HasDraftMarkers(Last(messages).content) => kind = "text")

\* A reply that asks to clarify is of kind text.
C8_Witness ==
    Replied /\ reply = TxtAskDirect /\ MentionsQuestion(reply) /\ kind = "text"

\* The question of the clarifying-question call the tools node executed,
\* for a batch of that one call; <<>> otherwise.
AskedIn(state) ==
    IF /\ Len(state) >= 2
       /\ Last(state).type = "tool"
       /\ state[Len(state) - 1].type = "ai"
       /\ Len(state[Len(state) - 1].tool_calls) = 1
       /\ state[Len(state) - 1].tool_calls[1].name = NameAsk
       /\ Has(state[Len(state) - 1].tool_calls[1].args, "question")
    THEN state[Len(state) - 1].tool_calls[1].args.question
    ELSE <<>>

IsFailureText(content, tool_call) ==
    \E cause \in Causes : content = ErrorPrefix \o tool_call.name \o ColonSpace \o cause

\* C10 as stated: after a tool call that raised, the turn goes on with
\* another call of the LLM: it does not end on the batch.
C10_FailureLoopsBack ==
    (lastNode = "tools"
       /\ \E i \in 1..Len(JustCalled) : Raises(JustCalled[i].name, JustCalled[i].args))
        => pc \notin {"end", "replied"}

\* C10, amended: a tool call that raises yields the tool message "Error
\* executing tool <name>: <cause>" and no error response; the LLM is called
\* again, with that message in its input, exactly when the last tool message
\* of the batch mentions "question" or "clarify", and the turn ends otherwise.
C10_FailureIsContent ==
    /\ lastNode = "tools" =>
          /\ \A i \in 1..Len(JustCalled) :
                Raises(JustCalled[i].name, JustCalled[i].args)
                    => IsFailureText(messages[Len(prev) + i].content, JustCalled[i])
          /\ error \in {"none", "llm", "recursion"}
          /\ (pc = "llm" => MentionsQuestion(Last(messages).content))
          /\ (pc \in {"end", "replied"} => ~MentionsQuestion(Last(messages).content))
          /\ (Replied => reply = Last(messages).content)
    /\ (lastNode = "llm" /\ Len(prev) >= 2 /\ prev[1].type = "ai") =>
          /\ Len(prev) = 1 + Len(prev[1].tool_calls)
          /\ MentionsQuestion(Last(prev).content)
          /\ \A i \in 1..Len(prev[1].tool_calls) :
                Raises(prev[1].tool_calls[i].name, prev[1].tool_calls[i].args)
                    => IsFailureText(prev[1 + i].content, prev[1].tool_calls[i])

\* The failure of the draft-formatting tool ends the turn and is the reply.
C10_Witness ==
    /\ Replied
    /\ lastNode = "tools"
    /\ Len(JustCalled) = 1
    /\ Raises(JustCalled[1].name, JustCalled[1].args)
    /\ reply = ErrorPrefix \o NameLog \o ColonSpace \o CauseFieldRequired

\* The failure of the clarifying-question tool, whose name mentions
\* "question", is in the input of the next call of the LLM.
C10_WitnessLoop ==
    /\ lastNode = "llm"
    /\ Len(prev) = 2
    /\ prev[1].type = "ai"
    /\ Raises(prev[1].tool_calls[1].name, prev[1].tool_calls[1].args)
    /\ IsFailureText(prev[2].content, prev[1].tool_calls[1])

\* C11 as stated: a call of a tool outside the registry yields the tool
\* message "Unknown tool: <name>", which the loop-back rule does not match:
\* the turn ends on it, without an error, with a reply of kind text.
C11_UnknownToolEnds ==
    (lastNode = "tools" /\ Last(JustCalled).name \notin ToolNames) =>
        /\ Last(messages).content = UnknownToolPrefix \o Last(JustCalled).name
        /\ pc \in {"end", "replied"}
        /\ (Replied => kind = "text")

\* C11, amended: every call of a tool outside the registry yields the tool
\* message "Unknown tool: <name>" and no error of the tools node.  When it is
\* the last call of its batch, the turn ends on it with that text as a reply
\* of kind text unless the name mentions "question" or "clarify"; if the name
\* does, the graph goes back to the llm node.
C11_UnknownToolIsContent ==
    lastNode = "tools" =>
        /\ \A i \in 1..Len(JustCalled) :
              JustCalled[i].name \notin ToolNames =>
                  messages[Len(prev) + i].content = UnknownToolPrefix \o JustCalled[i].name
        /\ error # "tool"
        /\ Last(JustCalled).name \notin ToolNames =>
              IF MentionsQuestion(Last(JustCalled).name)
              THEN pc = "llm" \/ (pc = "failed" /\ error \in {"llm", "recursion"})
              ELSE /\ pc \in {"end", "replied"}
                   /\ Replied => (reply = UnknownToolPrefix \o Last(JustCalled).name
                                     /\ kind = "text" /\ status = 200)

\* The call of an unknown tool ends the turn and its report is the reply.
C11_Witness ==
    /\ Replied
    /\ lastNode = "tools"
    /\ Len(JustCalled) = 1
    /\ JustCalled[1].name = NameDelete
    /\ reply = UnknownToolPrefix \o NameDelete
    /\ kind = "text"

\* C12: a call of the LLM that raises, be it the first of the turn or one
\* after a loop back from the tools node, ends the turn: the response is a
\* 500 without reply or kind, and nothing runs after it, neither the tools
\* node nor the llm node.
C12_LLMFailureIsFatal ==
    /\ [](error = "llm" =>
            /\ pc = "failed"
            /\ status = 500
            /\ reply = <<>>
            /\ kind = "none")
    /\ [][error = "llm" => UNCHANGED vars]_vars
    /\ [][(error # "llm" /\ error' = "llm") =>
            (pc = "llm" /\ UNCHANGED <<messages, executed, step, nextId>>)]_vars

\* The LLM raises when called again after a tool batch.
C12_Witness ==
    /\ pc = "failed"
    /\ error = "llm"
    /\ status = 500
    /\ lastNode = "tools"
    /\ step >= 2

\* The graph is about to be invoked with the messages built from the request.
Built == pc = "llm" /\ step = 0

\* The entries of the history that are replayed.
Replayed(h) == SelectSeq(h, LAMBDA e : e.sender \in {"user", "ai"})

\* C13 as stated: the messages built for a request with history h1..hn are
\* the system message, one message per entry of the history and the user
\* message: n + 2 messages, whatever the senders of the entries.
C13_OneMessagePerEntry ==
    Built =>
        /\ Len(messages) = Len(history) + 2
        /\ messages[1].type = "system"
        /\ Last(messages) = HumanMessage(message)

\* C13, amended: the messages built are the system message, one message per
\* entry of the history whose sender is "user" (a human message) or "ai" (an
\* assistant message), in the order of the history, and the user message;
\* an entry of any other sender is skipped.
C13_InitialMessages ==
    Built =>
        /\ Len(messages) = Len(Replayed(history)) + 2
        /\ messages[1] = SystemMessage(SystemPrompt)
        /\ Last(messages) = HumanMessage(message)
        /\ \A i \in 1..Len(Replayed(history)) :
              /\ messages[1 + i].content = Replayed(history)[i].text
              /\ messages[1 + i].type =
                    (IF Replayed(history)[i].sender = "user" THEN "human" ELSE "ai")
              /\ messages[1 + i].tool_calls = <<>>

\* A history of a user entry and an assistant entry is replayed in order.
C13_Witness ==
    /\ Built
    /\ Len(history) = 2
    /\ Len(messages) = 4
    /\ messages[2] = HumanMessage(TxtHi)
    /\ messages[3] = AIMessage(TxtOldReply, <<>>)

\* The lines of a text.
RECURSIVE SplitLines(_)
SplitLines(s) ==
    IF \A i \in 1..Len(s) : s[i] # "\n" THEN <<s>>
    ELSE LET i == CHOOSE i \in 1..Len(s) :
                      s[i] = "\n" /\ \A j \in 1..(i - 1) : s[j] # "\n"
         IN  <<SubSeq(s, 1, i - 1)>> \o SplitLines(SubSeq(s, i + 1, Len(s)))

\* The fields of a draft and their labels, in the order of the template.
DraftFields ==
    <<"hcpName", "interactionDate", "interactionTime", "interactionType", "attendees",
      "topicsDiscussed", "materialsShared", "samplesDistributed", "hcpSentiment",
      "outcomes", "followUpActions">>

DraftLabels ==
    <<MarkerHCP, MarkerDate, LabelTime, LabelType, LabelAttendees, MarkerTopics,
      LabelMaterials, LabelSamples, LabelSentiment, LabelOutcomes, LabelFollowUp>>

\* The argument is not supplied or empty.
Unspecified(args, k) == ~Has(args, k) \/ args[k] = <<>>

\* The positions, in the last batch, of the calls of the draft-formatting
\* tool that did not raise.
DraftCalls ==
    { i \in 1..Len(JustCalled) :
        JustCalled[i].name = NameLog /\ ~Raises(JustCalled[i].name, JustCalled[i].args) }

\* C14 as stated: the draft-formatting tool renders the eleven labelled
\* lines in the order of the template, with N/A for every field that is
\* empty or not supplied, and the result holds the markers of a draft.
C14_NAForEveryUnspecified ==
    lastNode = "tools" =>
        \A i \in DraftCalls :
            LET lines == SplitLines(messages[Len(prev) + i].content)
            IN  /\ Len(lines) = 11
                /\ HasDraftMarkers(messages[Len(prev) + i].content)
                /\ \A k \in 1..11 :
                      /\ IsPrefix(DraftLabels[k] \o Space, lines[k])
                      /\ Unspecified(JustCalled[i].args, DraftFields[k])
                            => lines[k] = DraftLabels[k] \o Space \o NA

\* C14, amended: as stated, but for the line of the type, which reads
\* Meeting when the type is not supplied and N/A when it is supplied empty;
\* a text that is supplied is rendered as it is, a list joined by ", ", and
\* the sentiment stripped, or N/A when it is blank or N/A.
C14_DraftTemplate ==
    lastNode = "tools" =>
        \A i \in DraftCalls :
            LET lines == SplitLines(messages[Len(prev) + i].content)
                args == JustCalled[i].args
                value(k) == SubSeq(lines[k], Len(DraftLabels[k]) + 2, Len(lines[k]))
            IN  /\ Len(lines) = 11
                /\ HasDraftMarkers(messages[Len(prev) + i].content)
                /\ \A k \in 1..11 :
                      /\ IsPrefix(DraftLabels[k] \o Space, lines[k])
                      /\ value(k) =
                           IF DraftFields[k] = "interactionType" /\ ~Has(args, "interactionType")
                           THEN Meeting
                           ELSE IF Unspecified(args, DraftFields[k]) THEN NA
                           ELSE IF DraftFields[k] \in {"attendees", "materialsShared",
                                                       "samplesDistributed"}
                           THEN Join(CommaSpace, args[DraftFields[k]])
                           ELSE IF DraftFields[k] = "hcpSentiment"
                           THEN (IF OnlyWhitespace(args.hcpSentiment)
                                    \/ Strip(args.hcpSentiment) = NA
                                 THEN NA ELSE Strip(args.hcpSentiment))
                           ELSE args[DraftFields[k]]

\* The draft of a call that supplies the three required fields only: the
\* type reads Meeting and the seven other lines N/A.
C14_Witness ==
    /\ lastNode = "tools"
    /\ Len(JustCalled) = 1
    /\ DraftCalls = {1}
    /\ JustCalled[1].args = LogArgs
    /\ LET lines == SplitLines(Last(messages).content)
       IN  /\ lines[4] = LabelType \o Space \o Meeting
           /\ \A k \in {3, 5, 7, 8, 9, 10, 11} : lines[k] = DraftLabels[k] \o Space \o NA

\* C15: when the last tool message of a batch is a draft of the
\* draft-formatting tool, whatever the values of its fields, the turn ends
\* on it: the LLM is not called again and the draft is the reply.
C15_DraftEndsTurn ==
    (lastNode = "tools" /\ Len(JustCalled) \in DraftCalls) =>
        /\ pc \in {"end", "replied"}
        /\ Replied => (reply = Last(messages).content /\ kind = "draft")

\* C16: the reply of a completed turn is the content of the last message of
\* the final state; when that is the LLM's response without tool calls, the
\* reply is its content and, without the markers of a draft, of kind text.
C16_ReplyIsLastContent ==
    Replied =>
        /\ status = 200
        /\ reply = Last(messages).content
        /\ lastNode = "llm" =>
              /\ Last(messages).type = "ai"
              /\ Last(messages).tool_calls = <<>>
              /\ messages = <<Last(messages)>>
              /\ ~HasDraftMarkers(reply) => kind = "text"

\* The LLM answers "Hello!" to a request with a history and that is the reply.
C16_Witness ==
    /\ Replied
    /\ history # <<>>
    /\ Last(messages) = AIMessage(TxtHello, <<>>)
    /\ reply = TxtHello
    /\ kind = "text"
    /\ step = 1

\* Both requests in flight have been answered with a reply.
BothReplied == Replied /\ peer.pc = "replied"

\* C17: two completed turns whose final messages have the same content
\* report the same kind, whether the final message is an assistant or a
\* tool message and whatever the earlier messages and the history.
C17_SameContentSameKind ==
    (BothReplied /\ Last(messages).content = Last(peer.messages).content)
        => kind = peer.kind

\* The same draft is the reply of two turns of different histories: the
\* LLM's own message in one, the tool message of the draft-formatting tool
\* in the other.
C17_Witness ==
    /\ BothReplied
    /\ Last(messages).content = Last(peer.messages).content
    /\ Last(messages).type = "ai"
    /\ Last(peer.messages).type = "tool"
    /\ history # peer.history
    /\ Len(messages) # Len(peer.messages)
    /\ kind = "draft"

\* C18: no step of a chat turn changes the store, not even the one that
\* replies with a draft: a row is added only by a confirmation or a form
\* request, one row per request that is answered 201.
C18_ChatNeverStores ==
    /\ [][turnVars' # turnVars => UNCHANGED <<records, origins>>]_vars
    /\ [][records' # records =>
            /\ UNCHANGED turnVars
            /\ dbStatus' = 201
            /\ Len(records') = Len(records) + 1
            /\ SubSeq(records', 1, Len(records)) = records
            /\ Last(origins').via \in {"confirm", "form"}]_vars
    /\ [](Len(origins) = Len(records))

\* A turn has replied with a draft and the store is as it was: the one row
\* it holds is the row a form request added.
C18_Witness ==
    /\ Replied
    /\ kind = "draft"
    /\ lastNode = "tools"
    /\ Len(records) = 1
    /\ origins[1].via = "form"

\* C19: the confirmation is idempotent on retry: the same draft, confirmed
\* twice, is stored once.
C19_ConfirmIdempotent ==
    \A i, j \in 1..Len(origins) :
        (origins[i].via = "confirm" /\ origins[i] = origins[j]) => i = j

\* The ids of the tool calls and of the tool messages of a state.
ToolIds(state) ==
    UNION { {state[i].tool_call_id} \cup
            {state[i].tool_calls[j].id : j \in 1..Len(state[i].tool_calls)} :
            i \in 1..Len(state) } \ {0}

\* The messages of a request are what the request alone makes them: the
\* messages built from its body before the first call of the LLM, the
\* response of the LLM after the llm node, that response and the tool
\* messages for its calls after the tools node; its reply is the content
\* of its last message.
OwnMessages(t) ==
    /\ (t.pc = "llm" /\ t.step = 0) => t.messages = InitialMessages(t.history, t.message)
    /\ t.lastNode = "llm" =>
          /\ Len(t.messages) = 1
          /\ t.messages[1].type = "ai"
          /\ t.step = 1 => t.prev = InitialMessages(t.history, t.message)
    /\ t.lastNode = "tools" =>
          /\ Len(t.prev) = 1
          /\ t.prev[1].type = "ai"
          /\ Len(t.messages) = 1 + Len(t.prev[1].tool_calls)
          /\ t.messages[1] = t.prev[1]
          /\ \A i \in 1..Len(t.prev[1].tool_calls) :
                /\ t.messages[1 + i].type = "tool"
                /\ t.messages[1 + i].tool_call_id = t.prev[1].tool_calls[i].id
    /\ t.pc = "replied" => t.reply = Last(t.messages).content

\* C20: two chat requests in flight are isolated.  Every step is either a
\* switch of the event loop, which exchanges the two requests as they are,
\* or a step of the running request, which leaves the suspended one as it
\* is; the messages of each request, among them those each call of the LLM
\* receives, and its reply are what the request alone makes them, and no
\* tool call or tool message of one is in the messages of the other.
C20_TurnsIsolated ==
    /\ [][(peer' = Current /\ Current' = peer) \/ peer' = peer]_vars
    /\ [](OwnMessages(Current) /\ OwnMessages(peer))
    /\ [](ToolIds(messages) \cap ToolIds(peer.messages) = {})
    /\ [](ToolIds(prev) \cap ToolIds(peer.messages) = {})

\* Two requests of different bodies are in flight: one has run its tools
\* and is due at the LLM again, the other is due at the tools node.
C20_Witness ==
    /\ message # peer.message
    /\ history # peer.history
    /\ pc = "llm"
    /\ lastNode = "tools"
    /\ peer.pc = "tools"
    /\ ToolIds(messages) # {}
    /\ ToolIds(peer.messages) # {}

---------------------------------------------------------------------------
(* C21: the display form of dates and times.                               *)

\* The date d written as day-month-year without the leading zero of the
\* day and of the month.
ShortDate(d) ==
    (IF d.day < 10 THEN <<DigitChars[d.day + 1]>> ELSE Pad2(d.day)) \o <<"-">>
    \o (IF d.month < 10 THEN <<DigitChars[d.month + 1]>> ELSE Pad2(d.month)) \o <<"-">>
    \o Pad4(d.year)

\* The time t written as hour:minute without the leading zero of the hour.
ShortTime(t) ==
    (IF t.hour < 10 THEN <<DigitChars[t.hour + 1]>> ELSE Pad2(t.hour)) \o <<":">>
    \o Pad2(t.minute)

\* C21 as stated: for every stored date and time of day, parsing what the
\* listing renders gives the stored value back, and rendering what the
\* parser gives for a listed text gives that text back.
C21_RoundTrip ==
    \A i \in 1..Len(listing) :
        LET log == records[i]
            shown == listing[i]
        IN  /\ ParseDate(shown.interactionDate) = Some(log.interactionDate)
            /\ FormatDate(ParseDate(shown.interactionDate)[1]) = shown.interactionDate
            /\ shown.interactionTime # None =>
                  /\ ParseTime(shown.interactionTime[1]) = log.interactionTime
                  /\ FormatTime(ParseTime(shown.interactionTime[1])[1])
                        = shown.interactionTime[1]

\* C21: for every stored date with a year of four digits, parsing what the
\* listing renders gives the stored date back; for every stored time, it
\* gives the stored time with its seconds set to zero, which is the stored
\* time exactly when that has no seconds.  Rendering what the parser gives
\* for a listed text gives that text back, while the parser also takes the
\* day, the month and the hour without their leading zero, and such a text
\* is rendered back with the zeros.
C21_RoundTripToTheMinute ==
    \A i \in 1..Len(listing) :
        LET log == records[i]
            shown == listing[i]
            d == log.interactionDate
        IN  /\ ParseDate(shown.interactionDate) = Some(d)
            /\ FormatDate(ParseDate(shown.interactionDate)[1]) = shown.interactionDate
            /\ ParseDate(ShortDate(d)) = Some(d)
            /\ (shown.interactionDate = ShortDate(d)) <=> (d.day >= 10 /\ d.month >= 10)
            /\ (shown.interactionTime = None) <=> (log.interactionTime = None)
            /\ shown.interactionTime # None =>
                  LET t == log.interactionTime[1]
                      text == shown.interactionTime[1]
                  IN  /\ ParseTime(text) = Some([t EXCEPT !.second = 0])
                      /\ (ParseTime(text) = Some(t)) <=> (t.second = 0)
                      /\ FormatTime(ParseTime(text)[1]) = text
                      /\ ParseTime(ShortTime(t)) = ParseTime(text)
                      /\ (text = ShortTime(t)) <=> (t.hour >= 10)

\* The 29th of February 2024 at half past ten has been listed.
C21_Witness ==
    /\ Len(listing) = 1
    /\ records[1].interactionDate = [year |-> 2024, month |-> 2, day |-> 29]
    /\ records[1].interactionTime = Some([hour |-> 10, minute |-> 30, second |-> 0])
    /\ listing[1].interactionDate = <<"2","9","-","0","2","-","2","0","2","4">>
    /\ listing[1].interactionTime = Some(<<"1","0",":","3","0">>)
    /\ listing[1].attendees = <<TxtAnn, TxtBob>>

---------------------------------------------------------------------------
(* C22: what the LLM is invoked with.                                      *)

\* C22: every invocation of the LLM, the ones after a loop-back from the
\* tools node included, is given a sequence that starts with the messages
\* built for the request: the system prompt, the replayed history and the
\* user message.  The sequence about to be given to the LLM is messages when
\* the llm node is next; the one the last invocation was given is prev.
C22_LLMSeesWholeTurn ==
    /\ pc = "llm" => IsPrefix(InitialMessages(history, message), messages)
    /\ lastNode = "llm" => IsPrefix(InitialMessages(history, message), prev)

---------------------------------------------------------------------------
(* C23, C24: the message the graph ends with.                              *)

\* C23: when the graph has ended, the last message of its state is an
\* assistant message without tool calls (the llm node ran last) or a tool
\* message (the tools node ran last): never an assistant message with tool
\* calls, never a user message.  The reply is therefore never one of the
\* handler's fallback texts for such a message.
C23_EndsOnAnswerOrToolOutput ==
    pc \in {"end", "replied"} =>
        LET final == Last(messages)
        IN  /\ final.type \in {"ai", "tool"}
            /\ final.type # "human"
            /\ ~(final.type = "ai" /\ final.tool_calls # <<>>)
            /\ (final.type = "ai") <=> (lastNode = "llm")
            /\ (final.type = "tool") <=> (lastNode = "tools")
            /\ Replied => /\ ~IsPrefix(FallbackPrefix, reply)
                          /\ reply # SorryText
                          /\ executed = <<>>

\* After a loop-back the LLM has answered without tool calls and the graph
\* has ended on that answer.
C23_Witness ==
    /\ pc = "end"
    /\ lastNode = "llm"
    /\ step = 3
    /\ Last(messages).type = "ai"
    /\ Last(messages).tool_calls = <<>>
    /\ Last(prev).type = "tool"

---------------------------------------------------------------------------
(* C25: the reply for an assistant message that still asks for a tool.     *)

\* The first tool call of the final message, an assistant message with tool
\* calls, has been answered for.
Pending ==
    /\ pc \in {"replied", "failed"}
    /\ Last(messages).type = "ai"
    /\ Last(messages).tool_calls # <<>>

---------------------------------------------------------------------------
(* C26: the Sentiment line of a draft.                                     *)

\* The value on the Sentiment line of the draft made for the i-th call of
\* the last batch.
SentimentLine(i) ==
    LET line == SplitLines(messages[Len(prev) + i].content)[9]
    IN  SubSeq(line, Len(LabelSentiment) + 2, Len(line))

\* C26 as stated: in every draft of the draft-formatting tool the value on
\* the Sentiment line is Positive, Neutral, Negative or N/A, whatever
\* hcpSentiment the LLM supplied.
C26_SentimentIsKnown ==
    lastNode = "tools" =>
        \A i \in DraftCalls : SentimentLine(i) \in Sentiments \cup {NA}

\* C26: in every draft of the draft-formatting tool the value on the
\* Sentiment line is N/A when hcpSentiment is not supplied, blank or N/A
\* once stripped, and the supplied text stripped otherwise: one of Positive,
\* Neutral, Negative and N/A exactly when the stripped argument is.
C26_SentimentIsArgument ==
    lastNode = "tools" =>
        \A i \in DraftCalls :
            LET args == JustCalled[i].args
            IN  /\ IsPrefix(LabelSentiment \o Space,
                            SplitLines(messages[Len(prev) + i].content)[9])
                /\ ~Has(args, "hcpSentiment") => SentimentLine(i) = NA
                /\ Has(args, "hcpSentiment") =>
                     /\ SentimentLine(i) =
                          IF Strip(args.hcpSentiment) = <<>> THEN NA
                          ELSE Strip(args.hcpSentiment)
                     /\ (SentimentLine(i) \in Sentiments \cup {NA})
                          <=> (Strip(args.hcpSentiment) \in Sentiments \cup {NA, <<>>})

\* The LLM supplied the sentiment Happy and the draft reads Happy.
C26_Witness ==
    /\ lastNode = "tools"
    /\ DraftCalls = {1}
    /\ Has(JustCalled[1].args, "hcpSentiment")
    /\ JustCalled[1].args.hcpSentiment = TxtHappy
    /\ SentimentLine(1) = TxtHappy
    /\ HasDraftMarkers(Last(messages).content)

---------------------------------------------------------------------------
(* C27: the re-validation of a confirmation request.                       *)

\* The draft fails one of the checks of the re-validation: a sentiment that
\* is none of Positive, Neutral, Negative, empty and N/A once stripped, a
\* date that is missing or does not parse as day-month-year, a time that
\* does not parse as hour:minute, an empty hcpName or topicsDiscussed.  A
\* null sentiment is no sentiment.
FailsRevalidation(draft_data) ==
    \/ /\ Has(draft_data, "hcpSentiment")
       /\ draft_data.hcpSentiment # Null
       /\ Strip(draft_data.hcpSentiment) \notin Sentiments \cup {<<>>, NA}
    \/ ~Has(draft_data, "interactionDate")
    \/ draft_data.interactionDate = <<>>
    \/ ParseDate(Strip(draft_data.interactionDate)) = None
    \/ /\ Has(draft_data, "interactionTime")
       /\ draft_data.interactionTime # <<>>
       /\ ParseTime(Strip(draft_data.interactionTime)) = None
    \/ Get(draft_data, "hcpName", <<>>) = <<>>
    \/ Get(draft_data, "topicsDiscussed", <<>>) = <<>>

\* C27: a confirmation request that fails the re-validation is answered 400
\* and leaves the table as it was; one that passes adds exactly one row and
\* is answered 201, unless the transaction of the insert fails, and then it
\* is answered 500 and the table is as it was.
C27_RejectOrStoreOne ==
    (attempt # None /\ attempt[1].via = "confirm") =>
        LET a == attempt[1]
        IN  IF FailsRevalidation(a.data)
            THEN dbStatus = 400 /\ records = a.before
            ELSE IF a.commits
            THEN /\ dbStatus = 201
                 /\ Len(records) = Len(a.before) + 1
                 /\ IsPrefix(a.before, records)
                 /\ Last(origins) = [via |-> "confirm", data |-> a.data]
            ELSE dbStatus = 500 /\ records = a.before

====
